---- MODULE Spec2Model ----
(***************************************************************************)
(* cln-zapper: the invoice consumption loop of src/main.rs as a state       *)
(* machine.  One process (the plugin) long-polls the payment backend,       *)
(* persists the pay index it was handed, decodes the invoice description    *)
(* as a zap request, builds the zap note and publishes it to relays.        *)
(***************************************************************************)
EXTENDS Integers, Sequences, FiniteSets, TLC

\* ------------------------------------------------------------------ bounds
\* Highest pay index the backend hands out in a checked run.
MaxIdx == 2

\* ------------------------------------------------------------- Option<T>
None == <<>>
Some(x) == <<x>>
IsSome(o) == o # <<>>
Unwrap(o) == o[1]

Min(a, b) == IF a < b THEN a ELSE b

\* ---------------------------------------------------------- nostr events
\* A signature is modelled by the pair it commits to: the signer's key and
\* the signed tags.  Event::verify recomputes it from the event's own
\* declared public key.
Sign(key, tags) == <<key, tags>>

Verify(ev) == ev.sig = Sign(ev.pubkey, ev.tags)

\* A tag: its kind k, and the value held by that kind (a string v, a relay
\* list rs, an amount a, or an embedded description d).
NoText == [kind |-> "text", text |-> "", pubkey |-> "", tags |-> <<>>, sig |-> Sign("", <<>>)]

NoTag == [k |-> "", v |-> "", rs |-> {}, a |-> 0, d |-> NoText, hex |-> <<>>]

PTag(who) == [NoTag EXCEPT !.k = "p", !.v = who]
ETag(id) == [NoTag EXCEPT !.k = "e", !.v = id]
RelaysTag(S) == [NoTag EXCEPT !.k = "relays", !.rs = S]
AmountTag(n) == [NoTag EXCEPT !.k = "amount", !.a = n]
Bolt11Tag(s) == [NoTag EXCEPT !.k = "bolt11", !.v = s]
\* The preimage tag holds the hex digits of the preimage bytes.
PreimageTag(digits) == [NoTag EXCEPT !.k = "preimage", !.hex = digits]
\* The description tag of a zap note carries the invoice description itself.
DescriptionTag(desc) == [NoTag EXCEPT !.k = "description", !.d = desc]

\* An invoice description: free text, or the JSON of a signed event.  For
\* an event, text is the layout of the JSON ("" is the serializer's own).
TextDescription(s) ==
    [kind |-> "text", text |-> s, pubkey |-> "", tags |-> <<>>, sig |-> Sign("", <<>>)]

SignedDescription(key, tags) ==
    [kind |-> "event", text |-> "", pubkey |-> key, tags |-> tags, sig |-> Sign(key, tags)]

ForgedDescription(key, tags) ==
    [kind |-> "event", text |-> "", pubkey |-> key, tags |-> tags, sig |-> Sign("mallory", tags)]

\* Relays named by zap requests, and the configured default relay.
Relay1 == "wss://relay.example"
nostr_relay == "ws://localhost:8080"

Descriptions ==
    { TextDescription("order #1234"),
      ForgedDescription("bob", <<PTag("alice"), AmountTag(1)>>),
      SignedDescription("bob", <<PTag("alice"), PTag("carol")>>),
      SignedDescription("bob", <<PTag("alice"), ETag("note1"), ETag("note2")>>),
      SignedDescription("bob", <<PTag("alice")>>),
      SignedDescription("bob", <<ETag("note1"), PTag("alice"), RelaysTag({Relay1}), AmountTag(1)>>) }

\* ---------------------------------------------------------------- decode
\* Result<ZapRequestInfo>: ok = FALSE is the Err branch, err names it.
ZapErr(why) ==
    [ok |-> FALSE, err |-> why, zap_request |-> TextDescription(""),
     p |-> PTag(""), e |-> None, relays |-> {}, amount |-> None]

IsPubKeyTag(t) == t.k = "p"
IsEventTag(t) == t.k = "e"
IsRelaysTag(t) == t.k = "relays"
IsAmountTag(t) == t.k = "amount"

\* filter_map(Tag::Relays).flatten().collect::<HashSet<_>>()
RelaysOf(tags) == UNION { tags[i].rs : i \in { j \in DOMAIN tags : IsRelaysTag(tags[j]) } }

\* find_map(Tag::Amount): the first amount tag, if any.
AmountOf(tags) ==
    LET as == SelectSeq(tags, IsAmountTag)
    IN  IF Len(as) = 0 THEN None ELSE Some(as[1].a)

\* The first p tag and the first e tag taken, however many there are.
ExtractZapFirstTags(zap_request) ==
    LET p_tags == SelectSeq(zap_request.tags, IsPubKeyTag)
        e_tags == SelectSeq(zap_request.tags, IsEventTag)
    IN  IF Len(p_tags) = 0 THEN ZapErr("None or too many p tags")
        ELSE [ok |-> TRUE, err |-> "", zap_request |-> zap_request,
              p |-> p_tags[1],
              e |-> IF Len(e_tags) = 0 THEN None ELSE Some(e_tags[1]),
              relays |-> RelaysOf(zap_request.tags),
              amount |-> AmountOf(zap_request.tags)]

\* Lines 257-314: the tag-count rules and the extracted fields.
ExtractZap(zap_request) ==
    LET p_tags == SelectSeq(zap_request.tags, IsPubKeyTag)
        e_tags == SelectSeq(zap_request.tags, IsEventTag)
    IN  IF Len(p_tags) # 1 THEN ZapErr("None or too many p tags")
        ELSE IF Len(e_tags) > 1 THEN ZapErr("Too many e tags")
        ELSE [ok |-> TRUE, err |-> "", zap_request |-> zap_request,
              p |-> p_tags[1],
              e |-> IF Len(e_tags) = 0 THEN None ELSE Some(e_tags[1]),
              relays |-> RelaysOf(zap_request.tags),
              amount |-> AmountOf(zap_request.tags)]

\* Event::from_json (line 252): the event a JSON text parses to.  The event
\* holds the fields; the layout of the text it was parsed from (text) is
\* gone.
from_json(description) == [description EXCEPT !.text = ""]

\* The decoder with the signature check (line 255) left out.
decode_zap_req_unverified(description) ==
    IF description.kind # "event" THEN ZapErr("MalformedEvent")
    ELSE ExtractZap(from_json(description))

decode_zap_req(description) ==
    IF description.kind # "event" THEN ZapErr("MalformedEvent")
    ELSE IF ~Verify(from_json(description)) THEN ZapErr("InvalidSignature")
    ELSE ExtractZap(from_json(description))

\* ------------------------------------------------------------ zap note
Keys == "zapper"

HexDigits == <<"0", "1", "2", "3", "4", "5", "6", "7", "8", "9",
               "a", "b", "c", "d", "e", "f">>

\* ToHex: two lower-case hex digits per byte, high nibble first.
RECURSIVE to_hex(_)
to_hex(bytes) ==
    IF Len(bytes) = 0 THEN <<>>
    ELSE <<HexDigits[(bytes[1] \div 16) + 1], HexDigits[(bytes[1] % 16) + 1]>>
         \o to_hex(Tail(bytes))

NoNote == [ok |-> FALSE, err |-> "", pubkey |-> "", tags |-> <<>>, sig |-> Sign("", <<>>)]

\* A receipt built whether or not the invoice has a bolt11: the bolt11 tag
\* is left out when it has none.
create_zap_note_any_invoice(keys, zap_request_info, invoice) ==
    LET tags == <<zap_request_info.p>>
                \o (IF IsSome(invoice.bolt11) THEN <<Bolt11Tag(Unwrap(invoice.bolt11))>> ELSE <<>>)
                \o <<DescriptionTag(invoice.description)>>
    IN  [ok |-> TRUE, err |-> "", pubkey |-> keys, tags |-> tags, sig |-> Sign(keys, tags)]

\* A receipt whose description tag carries the JSON of the parsed request,
\* not the invoice's own description string.
create_zap_note_reserialized(keys, zap_request_info, invoice) ==
    LET tags0 == IF IsSome(zap_request_info.e)
                 THEN <<zap_request_info.p, Unwrap(zap_request_info.e)>>
                 ELSE <<zap_request_info.p>>
    IN  IF ~IsSome(invoice.bolt11) THEN [NoNote EXCEPT !.err = "No bolt 11"]
        ELSE LET tags1 == tags0 \o <<Bolt11Tag(Unwrap(invoice.bolt11)),
                                     DescriptionTag(zap_request_info.zap_request)>>
                 tags == IF IsSome(invoice.payment_preimage)
                         THEN Append(tags1, PreimageTag(to_hex(Unwrap(invoice.payment_preimage))))
                         ELSE tags1
             IN  [ok |-> TRUE, err |-> "", pubkey |-> keys, tags |-> tags,
                  sig |-> Sign(keys, tags)]

\* Result<Event> of create_zap_note: ok = FALSE is the Err branch.
create_zap_note(keys, zap_request_info, invoice) ==
    LET tags0 == IF IsSome(zap_request_info.e)
                 THEN <<zap_request_info.p, Unwrap(zap_request_info.e)>>
                 ELSE <<zap_request_info.p>>
    IN  IF ~IsSome(invoice.bolt11) THEN [NoNote EXCEPT !.err = "No bolt 11"]
        ELSE LET tags1 == tags0 \o <<Bolt11Tag(Unwrap(invoice.bolt11)),
                                     DescriptionTag(invoice.description)>>
                 tags == IF IsSome(invoice.payment_preimage)
                         THEN Append(tags1, PreimageTag(to_hex(Unwrap(invoice.payment_preimage))))
                         ELSE tags1
             IN  [ok |-> TRUE, err |-> "", pubkey |-> keys, tags |-> tags,
                  sig |-> Sign(keys, tags)]

\* ---------------------------------------------------------- checkpoint
\* The checkpoint file: absent, or a byte string.  A valid checkpoint is
\* the 8 native-endian bytes of a u64.
NoFile == [exists |-> FALSE, bytes |-> <<>>]

RECURSIVE ToBytes(_, _)
ToBytes(n, len) == IF len = 0 THEN <<>> ELSE <<n % 256>> \o ToBytes(n \div 256, len - 1)

RECURSIVE FromBytes(_)
FromBytes(b) == IF Len(b) = 0 THEN 0 ELSE b[1] + 256 * FromBytes(Tail(b))

\* The 8 bytes of n narrowed to its low byte.
to_ne_bytes_of_u8(n) == ToBytes(n % 256, 8)

to_ne_bytes(n) == ToBytes(n, 8)
from_ne_bytes(b) == FromBytes(b)

\* Result<u64>: File::open fails on an absent file or an I/O error (io_ok =
\* FALSE), read_exact fails on a file shorter than 8 bytes.
read_last_pay_index(f, io_ok) ==
    IF ~f.exists \/ ~io_ok THEN [ok |-> FALSE, val |-> 0]
    ELSE IF Len(f.bytes) < 8 THEN [ok |-> FALSE, val |-> 0]
    ELSE [ok |-> TRUE, val |-> from_ne_bytes(SubSeq(f.bytes, 1, 8))]

\* The outcomes of a write: "ok"; "create_err" (create_dir_all or
\* File::create fails, the file is untouched); "write_err" (File::create
\* has truncated the file and write_all fails).
WriteOutcomes == {"ok", "create_err", "write_err"}

\* The file after write_last_pay_index(path, last_pay_index).
write_last_pay_index(f, last_pay_index, outcome) ==
    IF outcome = "ok" THEN [exists |-> TRUE, bytes |-> to_ne_bytes(last_pay_index)]
    ELSE IF outcome = "write_err" THEN [exists |-> TRUE, bytes |-> <<>>]
    ELSE f

\* ------------------------------------------------------------- invoices
\* WaitanyinvoiceResponse, without the fields the program never reads.  The
\* loop never branches on the preimage, so the invoices it is run on carry
\* none.
Invoices ==
    [pay_index : {None} \cup {Some(i) : i \in 1..MaxIdx},
     status : {"PAID", "EXPIRED"},
     description : Descriptions,
     amount_msat : {None, Some(1), Some(2)},
     bolt11 : {None, Some("lnbc500n1")},
     payment_preimage : {None}]

\* WaitAnyInvoice(lastpay_index): the backend answers with an invoice whose
\* pay index, when it has one, is greater than the cursor of the request.
BackendMayReturn(inv, cursor) ==
    (IsSome(inv.pay_index) /\ IsSome(cursor)) => Unwrap(inv.pay_index) > Unwrap(cursor)

\* ---------------------------------------------------------------- state
VARIABLES
    pc,            \* where the process is: "down", "await", "sleep", "decode",
                   \* "yielded", "broadcast", "connecting", "panicked"
    file,          \* the checkpoint file at pay_index_path
    last_pay_idx,  \* the cursor held by the stream (Option<u64>)
    request,       \* lastpay_index of the WaitAnyInvoice request last issued
    invoice,       \* the invoice being processed (Option)
    zap,           \* its decoded ZapRequestInfo (Option)
    zap_note,      \* the zap note built for it (Option)
    relays,        \* main's default relay set
    targets,       \* the relay set handed to broadcast_zap_note
    pending,       \* relays the broadcast loop has not reached yet
    relay,         \* the relay tungstenite::connect is being called on (Option)
    attempted,     \* relays the broadcast loop tried to connect to
    sent,          \* relays that were sent the publish frame
    written,       \* history: index of the last checkpoint write issued
    handed,        \* history: times each pay index was handed to the decoder
    logged,        \* history: last line logged about the invoice last returned
    write_failed,  \* history: some checkpoint write has failed
    skipped        \* history: index of the invoice last in hand when the process
                   \* was killed between its checkpoint write and its first frame

vars == <<pc, file, last_pay_idx, request, invoice, zap, zap_note, relays, targets,
          pending, relay, attempted, sent, written, handed, logged, write_failed,
          skipped>>

locals == <<invoice, zap, zap_note, targets, pending, relay, attempted, sent>>

history == <<written, handed, logged, write_failed, skipped>>

Init ==
    /\ pc = "down"
    /\ file = NoFile
    /\ last_pay_idx = None
    /\ request = None
    /\ invoice = None
    /\ zap = None
    /\ zap_note = None
    /\ relays = {}
    /\ targets = {}
    /\ pending = {}
    /\ relay = None
    /\ attempted = {}
    /\ sent = {}
    /\ written = None
    /\ handed = [i \in 1..MaxIdx |-> 0]
    /\ logged = ""
    /\ write_failed = FALSE
    /\ skipped = None

\* The locals of one loop iteration are dropped.
DropLocals ==
    /\ invoice' = None
    /\ zap' = None
    /\ zap_note' = None
    /\ targets' = {}
    /\ pending' = {}
    /\ relay' = None
    /\ attempted' = {}
    /\ sent' = {}

\* Top of the stream's loop: the next WaitAnyInvoice request goes out with
\* the cursor the stream holds.
AwaitNext(cursor) ==
    /\ pc' = "await"
    /\ request' = cursor

\* The cursor main starts from whatever the checkpoint file holds.
last_pay_index_zero(r) == 0

\* main, lines 96-105: the cursor main starts from, given the result r of
\* the checkpoint read: the value read, or 0 when the read failed.
last_pay_index(r) == IF r.ok THEN r.val ELSE 0

\* main, lines 91-108: the default relay set, the checkpoint read with its
\* fallback to 0, and the first request.  ClnRpc::new may fail, and main
\* then returns before the loop starts.
Start ==
    /\ pc \in {"down", "panicked"}
    /\ \E io_ok \in BOOLEAN, outcome \in WriteOutcomes, rpc_ok \in BOOLEAN :
          LET r == read_last_pay_index(file, io_ok)
          IN  /\ file' = IF r.ok THEN file ELSE write_last_pay_index(file, 0, outcome)
              /\ written' = IF r.ok THEN written ELSE Some(0)
              /\ write_failed' = (write_failed \/ (~r.ok /\ outcome # "ok"))
              /\ IF rpc_ok
                 THEN /\ relays' = {nostr_relay}
                      /\ last_pay_idx' = Some(last_pay_index(r))
                      /\ AwaitNext(Some(last_pay_index(r)))
                 ELSE /\ relays' = {}
                      /\ last_pay_idx' = None
                      /\ request' = None
                      /\ pc' = "down"
    /\ DropLocals
    /\ logged' = ""
    /\ UNCHANGED <<handed, skipped>>

\* The cursor forgotten by a failed call.
cursor_reset_on_error(cursor) == None

\* The cursor after a failed call (lines 181-187): untouched.
cursor_on_error(cursor) == cursor

\* Lines 179-187: the call fails; sleep one second.
BackendError ==
    /\ pc = "await"
    /\ pc' = "sleep"
    /\ last_pay_idx' = cursor_on_error(last_pay_idx)
    /\ UNCHANGED <<file, request, relays, locals, written, handed, logged, write_failed, skipped>>

\* Lines 184-186 and 172-177: the sleep ends and the request is reissued.
Retry ==
    /\ pc = "sleep"
    /\ AwaitNext(last_pay_idx)
    /\ UNCHANGED <<file, last_pay_idx, relays, locals, history>>

\* The cursor advanced for paid invoices only.
cursor_after_paid_invoice(inv) == IF inv.status = "PAID" THEN inv.pay_index ELSE None

\* Line 192.
cursor_after_invoice(inv) == inv.pay_index

\* Lines 179-197: the call returns an invoice; the cursor takes its pay
\* index and the checkpoint write is issued when it has one.
InvoiceReturnedFrom(answers) ==
    /\ pc = "await"
    /\ \E inv \in answers, outcome \in WriteOutcomes :
          /\ BackendMayReturn(inv, request)
          /\ last_pay_idx' = cursor_after_invoice(inv)
          /\ IF IsSome(last_pay_idx')
             THEN /\ file' = write_last_pay_index(file, Unwrap(last_pay_idx'), outcome)
                  /\ written' = last_pay_idx'
                  /\ write_failed' = (write_failed \/ outcome # "ok")
             ELSE UNCHANGED <<file, written, write_failed>>
          /\ invoice' = Some(inv)
    /\ pc' = "decode"
    /\ logged' = ""
    /\ UNCHANGED <<request, zap, zap_note, relays, targets, pending, relay, attempted, sent,
                   handed, skipped>>

InvoiceReturned == InvoiceReturnedFrom(Invoices)

\* The same step against a backend that answers with indexed invoices only.
IndexedInvoiceReturned == InvoiceReturnedFrom({inv \in Invoices : IsSome(inv.pay_index)})

\* Lines 204-207: both amounts are present and they differ.
amount_mismatch(zap_info, inv) ==
    /\ IsSome(zap_info.amount)
    /\ IsSome(inv.amount_msat)
    /\ Unwrap(zap_info.amount) # Unwrap(inv.amount_msat)

\* Lines 199-229: decode the description; yield the zap with its invoice, or
\* go round the loop and wait for the next invoice.
Decode ==
    /\ pc = "decode"
    /\ LET inv == Unwrap(invoice)
           r == decode_zap_req(inv.description)
       IN  /\ handed' = IF IsSome(inv.pay_index)
                         THEN [handed EXCEPT ![Unwrap(inv.pay_index)] = Min(@ + 1, 2)]
                         ELSE handed
           /\ IF r.ok /\ ~amount_mismatch(r, inv)
              THEN /\ zap' = Some(r)
                   /\ last_pay_idx' = inv.pay_index
                   /\ pc' = "yielded"
                   /\ UNCHANGED <<request, invoice, logged>>
              ELSE /\ AwaitNext(last_pay_idx)
                   /\ invoice' = None
                   /\ logged' = IF r.ok THEN "amount does not equal invoice amount"
                                        ELSE "Error while decoding zap"
                   /\ UNCHANGED <<zap, last_pay_idx>>
    /\ UNCHANGED <<file, zap_note, relays, targets, pending, relay, attempted, sent,
                   written, write_failed, skipped>>

\* Lines 120-121: the set handed to the broadcast is a clone of main's set
\* extended with the request's relays.
broadcast_relays(default_relays, request_relays) == default_relays \cup request_relays

\* The request's relays inserted into main's own set.
relays_extended_in_place(default_relays, request_relays) == default_relays \cup request_relays

\* Line 120 shadows `relays`: main's own set is what it was.
relays_after_iteration(default_relays, request_relays) == default_relays

\* Lines 109-124 and 136: build the zap note; on success enter
\* broadcast_zap_note, which first verifies the note.
CreateZapNote ==
    /\ pc = "yielded"
    /\ LET zap_request_info == Unwrap(zap)
           note == create_zap_note(Keys, zap_request_info, Unwrap(invoice))
       IN  IF note.ok /\ Verify(note)
           THEN /\ zap_note' = Some(note)
                /\ targets' = broadcast_relays(relays, zap_request_info.relays)
                /\ pending' = targets'
                /\ relays' = relays_after_iteration(relays, zap_request_info.relays)
                /\ pc' = "broadcast"
                /\ UNCHANGED <<request, invoice, zap, relay, attempted, sent, logged>>
           ELSE /\ AwaitNext(last_pay_idx)
                /\ DropLocals
                /\ logged' = IF note.ok THEN "Broadcasted"
                                         ELSE "Error while creating zap note"
                /\ UNCHANGED relays
    /\ UNCHANGED <<file, last_pay_idx, written, handed, write_failed, skipped>>

\* Lines 139-140, the loop over the relay set (a HashSet: any order) takes
\* its next relay and calls tungstenite::connect on it.  The call is a
\* blocking one, made on the task that runs main's loop: until it returns,
\* the process does nothing else.
Connect ==
    /\ pc = "broadcast"
    /\ \E next_relay \in pending :
          /\ pending' = pending \ {next_relay}
          /\ attempted' = attempted \cup {next_relay}
          /\ relay' = Some(next_relay)
    /\ pc' = "connecting"
    /\ UNCHANGED <<file, last_pay_idx, request, invoice, zap, zap_note, relays,
                   targets, sent, history>>

\* Lines 140-154, the connect call returns and the iteration ends.  A failed
\* connect is skipped; a failed send panics.
BroadcastRelay ==
    /\ pc = "connecting"
    /\ \E connect_ok \in BOOLEAN, send_ok \in BOOLEAN :
          IF ~connect_ok
          THEN /\ pc' = "broadcast"
               /\ UNCHANGED sent
          ELSE IF send_ok
               THEN /\ sent' = sent \cup {Unwrap(relay)}
                    /\ pc' = "broadcast"
               ELSE /\ pc' = "panicked"
                    /\ UNCHANGED sent
    /\ relay' = None
    /\ UNCHANGED <<file, last_pay_idx, request, invoice, zap, zap_note, relays,
                   targets, pending, attempted, history>>

\* Lines 156 and 124-129: the broadcast returns and main asks the stream for
\* the next item.
BroadcastDone ==
    /\ pc = "broadcast"
    /\ pending = {}
    /\ AwaitNext(last_pay_idx)
    /\ DropLocals
    /\ logged' = "Broadcasted"
    /\ UNCHANGED <<file, last_pay_idx, relays, written, handed, write_failed, skipped>>

\* The process is killed; only the checkpoint file survives.
Crash ==
    /\ pc \notin {"down", "panicked"}
    /\ pc' = "down"
    /\ last_pay_idx' = None
    /\ request' = None
    /\ relays' = {}
    /\ DropLocals
    /\ logged' = ""
    /\ UNCHANGED <<file, written, handed, write_failed, skipped>>

Next ==
    \/ Start
    \/ BackendError
    \/ Retry
    \/ InvoiceReturned
    \/ Decode
    \/ CreateZapNote
    \/ Connect
    \/ BroadcastRelay
    \/ BroadcastDone
    \/ Crash

Spec == Init /\ [][Next]_vars

\* The program against a backend that answers with indexed invoices only.
NextIndexed ==
    \/ Start
    \/ BackendError
    \/ Retry
    \/ IndexedInvoiceReturned
    \/ Decode
    \/ CreateZapNote
    \/ Connect
    \/ BroadcastRelay
    \/ BroadcastDone
    \/ Crash

SpecIndexed == Init /\ [][NextIndexed]_vars

\* ====================================================================
\* Properties
\* ====================================================================

\* The invoice in hand is being processed: returned, and not yet dropped.
Processing ==
    pc \in {"decode", "yielded", "broadcast", "connecting", "panicked"} /\ IsSome(invoice)

\* The value a reader of the checkpoint file gets, when the file is valid.
Persisted(f) == read_last_pay_index(f, TRUE)

\* C1: for every returned invoice that has a pay index, whatever its status
\* and description, the cursor equals that index and the checkpoint write
\* for that index has been issued from the moment the invoice is about to be
\* decoded, and throughout the build and the broadcast of its receipt.
C1_CheckpointBeforeDecode ==
    (Processing /\ IsSome(Unwrap(invoice).pay_index)) =>
        /\ last_pay_idx = Unwrap(invoice).pay_index
        /\ written = Unwrap(invoice).pay_index

\* An expired invoice with a free-text description is about to be decoded:
\* its index is the cursor and the last write issued.
C1_Witness ==
    /\ pc = "decode"
    /\ Unwrap(invoice).status = "EXPIRED"
    /\ Unwrap(invoice).description.kind = "text"
    /\ Unwrap(invoice).pay_index = Some(MaxIdx)
    /\ last_pay_idx = Some(MaxIdx)
    /\ written = Some(MaxIdx)
    /\ handed[MaxIdx] = 0

\* C2: a backend error changes neither the cursor nor the checkpoint file,
\* issues no checkpoint write and builds or sends nothing; the request
\* reissued after the sleep carries the cursor of the failed one.  This
\* holds of every error step, however many came before it.
C2_ErrorKeepsCursor ==
    [][ /\ (pc = "await" /\ pc' = "sleep") =>
             /\ last_pay_idx' = last_pay_idx
             /\ file' = file
             /\ written' = written
             /\ zap_note' = zap_note
             /\ sent' = sent
        /\ (pc = "sleep" /\ pc' = "await") => request' = request ]_vars

\* The call has failed and the loop sleeps, holding the cursor that the
\* invoice with index 1 left and that the failed request carried.
C2_Witness ==
    /\ pc = "sleep"
    /\ request = Some(1)
    /\ last_pay_idx = Some(1)
    /\ Persisted(file).ok
    /\ Persisted(file).val = 1

\* C3: the persisted checkpoint never decreases, and a checkpoint write that
\* succeeds on a returned invoice leaves that invoice's pay index in the
\* file.
C3_CheckpointNeverRegresses ==
    [][ /\ (Persisted(file).ok /\ Persisted(file').ok) =>
             Persisted(file').val >= Persisted(file).val
        /\ (pc = "await" /\ pc' = "decode" /\ file' # file /\ Persisted(file').ok) =>
             Some(Persisted(file').val) = Unwrap(invoice').pay_index ]_vars

\* The invoice in hand has been yielded by the stream: a receipt is being
\* built or broadcast for it.
Yielded == pc \in {"yielded", "broadcast", "connecting", "panicked"} /\ IsSome(invoice)

\* Nothing has been decoded, built or sent for the invoice in hand.
NothingEmitted == zap = None /\ zap_note = None /\ attempted = {} /\ sent = {}

\* C4: an invoice returned with status EXPIRED is never yielded: no zap
\* request is decoded from it, no receipt is built and no relay is sent a
\* frame for it, even when its description is a valid signed zap request.
C4_ExpiredDiscarded ==
    (Processing /\ Unwrap(invoice).status = "EXPIRED") => (pc = "decode" /\ NothingEmitted)

\* A yielded invoice whose request carries an amount tag has exactly that
\* amount.
C5_Gate ==
    (Yielded /\ IsSome(zap) /\ IsSome(Unwrap(zap).amount)) =>
        Unwrap(invoice).amount_msat = Unwrap(zap).amount

\* C5: an invoice is yielded with a request that carries an amount tag only
\* when the invoice's amount is present and equal to it; a decodable request
\* with no amount tag, or with an equal amount, is yielded.
C5_AmountGate ==
    [][ /\ C5_Gate'
        /\ ( /\ pc = "decode"
             /\ decode_zap_req(Unwrap(invoice).description).ok
             /\ LET want == decode_zap_req(Unwrap(invoice).description).amount
                IN  want = None \/ want = Unwrap(invoice).amount_msat )
           => pc' \in {"yielded", "down"} ]_vars

\* A description is a valid zap request: a signed event whose signature is
\* the one its own public key gives, with exactly one p tag and at most one
\* e tag.
ValidZapRequest(d) ==
    /\ d.kind = "event"
    /\ d.sig = <<d.pubkey, d.tags>>
    /\ Cardinality({i \in DOMAIN d.tags : d.tags[i].k = "p"}) = 1
    /\ Cardinality({i \in DOMAIN d.tags : d.tags[i].k = "e"}) <= 1

C6_Gate ==
    (Processing /\ ~ValidZapRequest(Unwrap(invoice).description)) =>
        (pc = "decode" /\ NothingEmitted)

\* C6: an invoice whose description is not a valid zap request (not an
\* event, a signature its public key does not give, a tag-count rule broken)
\* is never yielded, gets no receipt and no frame; the decode step drops it
\* and the next request carries the invoice's index as its cursor.
C6_InvalidNeverReceipted ==
    [][ /\ C6_Gate'
        /\ (pc = "decode" /\ ~ValidZapRequest(Unwrap(invoice).description)) =>
             \/ pc' = "down"
             \/ /\ pc' = "await"
                /\ request' = Unwrap(invoice).pay_index
                /\ invoice' = None
                /\ NothingEmitted' ]_vars

\* The invoice with index MaxIdx failed to decode and the next request is in
\* flight with cursor MaxIdx.
C6_Witness ==
    /\ pc = "await"
    /\ logged = "Error while decoding zap"
    /\ request = Some(MaxIdx)
    /\ handed[MaxIdx] = 1
    /\ NothingEmitted

\* C7: a broadcast call ends only by returning (or with the process killed),
\* and it returns with every endpoint of its set attempted; an endpoint that
\* fails to connect or to send does not end it.
C7_BroadcastIsolation ==
    [][ (pc \in {"broadcast", "connecting"}) =>
          ( /\ pc' \in {"broadcast", "connecting", "await", "down"}
            /\ (pc' = "await" => attempted = targets) ) ]_vars

\* C8: the process never exits once started: no event of the loop panics
\* it.
C8_NoTerminalState == pc # "panicked"

\* C9: the relay set of a broadcast is the configured default relay plus the
\* relays of the invoice's own zap request; every endpoint attempted is of
\* that set, and all of it is attempted when the broadcast returns; main's
\* default set stays the configured relay.
C9_BroadcastSet ==
    /\ pc \notin {"down", "panicked"} => relays = {nostr_relay}
    /\ pc \in {"broadcast", "connecting", "panicked"} =>
          /\ targets = {nostr_relay} \cup RelaysOf(Unwrap(invoice).description.tags)
          /\ attempted \cup pending = targets
          /\ attempted \cap pending = {}
          /\ sent \subseteq attempted

\* A later broadcast, after an earlier one has completed: a request that
\* names no relay has had the default relay alone attempted.
C9_Witness ==
    /\ pc = "broadcast"
    /\ pending = {}
    /\ handed = [i \in 1..MaxIdx |-> 1]
    /\ Unwrap(zap).relays = {}
    /\ attempted = {nostr_relay}
    /\ sent = {nostr_relay}

\* C10: against a backend that answers with an index greater than the
\* cursor, as long as no checkpoint write has failed, no pay index is handed
\* to the decoder more than once, within a run or across restarts.
C10_ConsumedOnce ==
    ~write_failed => \A i \in 1..MaxIdx : handed[i] <= 1

\* The checkpoint file holds the index idx, an Option.
FileHolds(f, idx) == IsSome(idx) /\ Persisted(f).ok /\ Persisted(f).val = Unwrap(idx)

\* C11: when the checkpoint write for a returned invoice fails over a file
\* that holds a checkpoint (the file does not hold the invoice's index
\* afterwards), the cursor is the invoice's index all the same, the invoice
\* goes on to be decoded, and the checkpoint file keeps the value it held
\* before the write.
C11_FailedWriteKeepsOldCheckpoint ==
    [][ ( /\ pc = "await"
          /\ pc' = "decode"
          /\ Persisted(file).ok
          /\ IsSome(Unwrap(invoice').pay_index)
          /\ ~FileHolds(file', Unwrap(invoice').pay_index) )
        => /\ last_pay_idx' = Unwrap(invoice').pay_index
           /\ file' = file ]_vars

\* C12: the first request of a run carries the cursor the checkpoint gives.
\* Either the read succeeded: the cursor is the value the file holds, and
\* nothing is written; or it failed, as it must when the file is absent or
\* not 8 bytes long: the cursor is 0 and a write of 0 has been issued, and
\* whether that write succeeded, failed to create the file or failed after
\* creating it, the request is issued all the same.
C12_StartupCursor ==
    [][ (pc \in {"down", "panicked"} /\ pc' = "await") =>
          \/ /\ Persisted(file).ok
             /\ request' = Some(Persisted(file).val)
             /\ file' = file
             /\ written' = written
          \/ /\ request' = Some(0)
             /\ written' = Some(0)
             /\ \/ FileHolds(file', Some(0))
                \/ file' = file
                \/ file' = [exists |-> TRUE, bytes |-> <<>>] ]_vars

\* The file was absent, the write of 0 failed to create it, and the first
\* request of the run is in flight with cursor 0.
C12_Witness ==
    /\ pc = "await"
    /\ request = Some(0)
    /\ last_pay_idx = Some(0)
    /\ written = Some(0)
    /\ file = NoFile
    /\ handed = [i \in 1..MaxIdx |-> 0]

\* C13: an invoice without a bolt11 string never has a receipt, an attempted
\* relay or a sent frame; when it has been yielded with a valid zap request,
\* the build step drops it: the loop goes on to the next request, carrying
\* the invoice's index as cursor, with the cursor and the checkpoint file as
\* the invoice's arrival left them.
C13_NoBolt11NoReceipt ==
    [][ /\ (zap_note' # None \/ attempted' # {} \/ sent' # {}) =>
             IsSome(Unwrap(invoice').bolt11)
        /\ (pc = "yielded" /\ Unwrap(invoice).bolt11 = None) =>
             \/ pc' = "down"
             \/ /\ pc' = "await"
                /\ request' = Unwrap(invoice).pay_index
                /\ last_pay_idx' = Unwrap(invoice).pay_index
                /\ file' = file
                /\ written' = written
                /\ NothingEmitted' ]_vars

\* The paid invoice with index MaxIdx, a valid zap request and no bolt11 has
\* failed to build: the next request is in flight with cursor MaxIdx, the
\* file holds MaxIdx, and nothing was built or sent.
C13_Witness ==
    /\ pc = "await"
    /\ logged = "Error while creating zap note"
    /\ request = Some(MaxIdx)
    /\ FileHolds(file, Some(MaxIdx))
    /\ handed[MaxIdx] = 1
    /\ NothingEmitted

\* ====================================================================
\* The checkpoint store on its own
\* ====================================================================

\* Indexes written to the store: small ones, the pair of the source's test
\* (42, 43), and values around each byte boundary up to the largest integer
\* the checker holds, each with its successor.
StoreValues ==
    {0, 1, 42, 43, 255, 256, 257, 65535, 65536, 65537,
     16777215, 16777216, 16777217, 2147483646, 2147483647}

\* write_last_pay_index(path, n) returning Ok.
WriteLastPayIndex ==
    /\ \E n \in StoreValues :
          /\ file' = write_last_pay_index(file, n, "ok")
          /\ written' = Some(n)
    /\ UNCHANGED <<pc, last_pay_idx, request, relays, locals, handed, logged, write_failed,
                   skipped>>

\* read_last_pay_index(path) returning Ok(idx); idx is kept in last_pay_idx.
ReadLastPayIndex ==
    /\ LET r == read_last_pay_index(file, TRUE)
       IN  /\ r.ok
           /\ last_pay_idx' = Some(r.val)
    /\ UNCHANGED <<pc, file, request, relays, locals, history>>

NextStore == WriteLastPayIndex \/ ReadLastPayIndex

SpecStore == Init /\ [][NextStore]_vars

\* C14: after any sequence of successful writes, a read of the checkpoint
\* store succeeds and returns the index last written: write(n) then read()
\* gives n, and a write of n + 1 after a write of n leaves n + 1.  A read
\* step returns that same value.
C14_StoreRoundTrip ==
    [][ /\ IsSome(written') =>
             /\ read_last_pay_index(file', TRUE).ok
             /\ read_last_pay_index(file', TRUE).val = Unwrap(written')
             /\ Len(file'.bytes) = 8
        /\ (last_pay_idx' # last_pay_idx) => last_pay_idx' = written ]_vars

\* 42 was written and read back, then 43 was written over it: the store
\* now reads 43.
C14_Witness ==
    /\ pc = "down"
    /\ last_pay_idx = Some(42)
    /\ written = Some(43)
    /\ read_last_pay_index(file, TRUE).val = 43

\* ====================================================================
\* The decoder on its own
\* ====================================================================

\* Longest tag list of a decoder input.
MaxTags == 3

TagAlphabet ==
    {PTag("alice"), PTag("carol"), ETag("note1"), ETag("note2"), RelaysTag({Relay1})}

TagLists == UNION { [1..n -> TagAlphabet] : n \in 0..MaxTags }

\* Decoder inputs: signed events over every tag list, and inputs that do
\* not parse or do not verify.
DecodeInputs ==
    { SignedDescription("bob", tags) : tags \in TagLists }
    \cup { ForgedDescription("bob", <<t>>) : t \in TagAlphabet }
    \cup { TextDescription("order #1234") }

\* An invoice that carries the description d.
InvoiceWith(d) ==
    [pay_index |-> None, status |-> "PAID", description |-> d, amount_msat |-> None,
     bolt11 |-> None, payment_preimage |-> None]

\* decode_zap_req(&invoice.description) and the match on its result (lines
\* 199-200, 221-226): the ZapRequestInfo, or the error logged.
DecodeZapReq ==
    /\ \E d \in DecodeInputs :
          LET r == decode_zap_req(d)
          IN  /\ invoice' = Some(InvoiceWith(d))
              /\ zap' = IF r.ok THEN Some(r) ELSE None
              /\ logged' = r.err
    /\ UNCHANGED <<pc, file, last_pay_idx, request, zap_note, relays, targets, pending,
                   relay, attempted, sent, written, handed, write_failed, skipped>>

NextDecode == DecodeZapReq

SpecDecode == Init /\ [][NextDecode]_vars

\* Positions of the tags of kind k in a tag list.
TagsOfKind(tags, k) == { i \in DOMAIN tags : tags[i].k = k }

\* C15: a description whose number of p tags is not one fails to decode,
\* and with the p-count error when it is an event that verifies; with
\* exactly one p tag such an event decodes with that tag as recipient when
\* it has at most one e tag: no e tag leaves the referenced event absent,
\* one e tag sets it to that tag; two or more e tags fail the decode.
C15_TagCountRules ==
    IsSome(invoice) =>
        LET d == Unwrap(invoice).description
            ps == TagsOfKind(d.tags, "p")
            es == TagsOfKind(d.tags, "e")
            verifies == d.kind = "event" /\ d.sig = <<d.pubkey, d.tags>>
        IN  /\ Cardinality(ps) # 1 => zap = None
            /\ Cardinality(es) >= 2 => zap = None
            /\ (verifies /\ Cardinality(ps) # 1) => logged = "None or too many p tags"
            /\ (verifies /\ Cardinality(ps) = 1 /\ Cardinality(es) >= 2) =>
                   logged = "Too many e tags"
            /\ (verifies /\ Cardinality(ps) = 1 /\ Cardinality(es) <= 1) =>
                   /\ IsSome(zap)
                   /\ \A i \in ps : Unwrap(zap).p = d.tags[i]
                   /\ es = {} => Unwrap(zap).e = None
                   /\ \A i \in es : Unwrap(zap).e = Some(d.tags[i])

\* A request with one e tag, then its one p tag, then a relays tag has been
\* decoded: the recipient and the referenced event are those two tags.
C15_Witness ==
    /\ pc = "down"
    /\ IsSome(invoice)
    /\ Unwrap(invoice).description.tags = <<ETag("note2"), PTag("carol"), RelaysTag({Relay1})>>
    /\ IsSome(zap)
    /\ Unwrap(zap).p = PTag("carol")
    /\ Unwrap(zap).e = Some(ETag("note2"))

\* ====================================================================
\* The receipt builder on its own
\* ====================================================================

\* Layouts of the JSON text of a zap request: the serializer's own, and
\* another one (other spacing or key order).
Layouts == {"", "spaced"}

\* Valid zap requests, in each layout.
BuildDescriptions ==
    { [SignedDescription("bob", tags) EXCEPT !.text = layout] :
        tags \in { t \in TagLists : /\ Cardinality(TagsOfKind(t, "p")) = 1
                                    /\ Cardinality(TagsOfKind(t, "e")) <= 1 },
        layout \in Layouts }

\* Preimages: absent, or a few bytes.
Preimages == {None, Some(<<0, 255>>), Some(<<171, 16>>)}

\* create_zap_note(&keys, zap_req_info, invoice) on a decoded request and
\* its invoice, as main calls it (line 110) and as the source's test does.
BuildZapNote ==
    /\ \E d \in BuildDescriptions, bolt11 \in {None, Some("lnbc500n1")}, pre \in Preimages :
          LET inv == [InvoiceWith(d) EXCEPT !.bolt11 = bolt11, !.payment_preimage = pre]
              info == decode_zap_req(d)
              note == create_zap_note(Keys, info, inv)
          IN  /\ info.ok
              /\ invoice' = Some(inv)
              /\ zap' = Some(info)
              /\ zap_note' = IF note.ok THEN Some(note) ELSE None
              /\ logged' = note.err
    /\ UNCHANGED <<pc, file, last_pay_idx, request, relays, targets, pending,
                   relay, attempted, sent, written, handed, write_failed, skipped>>

NextBuild == BuildZapNote

SpecBuild == Init /\ [][NextBuild]_vars

\* C16: the receipt is built exactly when the invoice has a bolt11, with or
\* without a preimage.  Its tags are, in order: the request's p tag; the
\* request's e tag when it has one; the bolt11 tag with the invoice's
\* bolt11; the description tag with the invoice's description as it is,
\* layout included; and then a preimage tag, with two hex digits a byte,
\* exactly when the invoice has a preimage.
C16_ReceiptTags ==
    IsSome(invoice) =>
        LET inv == Unwrap(invoice)
            d == inv.description
            ps == TagsOfKind(d.tags, "p")
            es == TagsOfKind(d.tags, "e")
            e == IF es = {} THEN 0 ELSE 1
            pre == IF IsSome(inv.payment_preimage) THEN 1 ELSE 0
        IN  /\ IsSome(zap_note) <=> IsSome(inv.bolt11)
            /\ IsSome(zap_note) =>
                 LET tags == Unwrap(zap_note).tags
                 IN  /\ Len(tags) = 3 + e + pre
                     /\ \A i \in ps : tags[1] = d.tags[i]
                     /\ \A i \in es : tags[2] = d.tags[i]
                     /\ tags[2 + e].k = "bolt11"
                     /\ Some(tags[2 + e].v) = inv.bolt11
                     /\ tags[3 + e].k = "description"
                     /\ tags[3 + e].d = d
                     /\ pre = 1 =>
                          /\ tags[4 + e].k = "preimage"
                          /\ Len(tags[4 + e].hex) = 2 * Len(Unwrap(inv.payment_preimage))

\* A request in the other layout, with an e tag before its p tag, and an
\* invoice with the preimage 00 ff: the receipt has the five tags in order,
\* the description in the other layout.
C16_Witness ==
    /\ IsSome(invoice)
    /\ IsSome(zap_note)
    /\ Unwrap(invoice).description.text = "spaced"
    /\ Unwrap(invoice).description.tags = <<ETag("note1"), PTag("alice")>>
    /\ Unwrap(zap_note).tags =
         <<PTag("alice"), ETag("note1"), Bolt11Tag("lnbc500n1"),
           DescriptionTag(Unwrap(invoice).description),
           PreimageTag(<<"0", "0", "f", "f">>)>>

\* A step the running process takes by itself: nothing outside it (the
\* backend's answer, a relay's answer) has to arrive first.
OwnStep == Retry \/ Decode \/ CreateZapNote \/ Connect \/ BroadcastDone

\* C17: the only place where the running loop waits for something outside
\* the process is the long-poll: in every other state of a running process
\* the loop can take a step of its own.  While a connection to a relay is
\* being attempted the loop is not held up.
C17_OnlyLongPollBlocks ==
    (pc \notin {"down", "panicked", "await"}) => ENABLED OwnStep

\* ====================================================================
\* The process killed between the checkpoint write and the first frame
\* ====================================================================

\* The process is killed while it holds a paid invoice that carries a valid
\* zap request and a bolt11, after the invoice's index has reached the
\* checkpoint file and before any relay has been sent its receipt.
KilledBeforePublish ==
    /\ pc \in {"decode", "yielded", "broadcast", "connecting"}
    /\ IsSome(invoice)
    /\ Unwrap(invoice).status = "PAID"
    /\ ValidZapRequest(Unwrap(invoice).description)
    /\ IsSome(Unwrap(invoice).bolt11)
    /\ FileHolds(file, Unwrap(invoice).pay_index)
    /\ sent = {}
    /\ skipped' = Unwrap(invoice).pay_index
    /\ pc' = "down"
    /\ last_pay_idx' = None
    /\ request' = None
    /\ relays' = {}
    /\ DropLocals
    /\ logged' = ""
    /\ UNCHANGED <<file, written, handed, write_failed>>

NextKilled == NextIndexed \/ KilledBeforePublish

\* The program, killed at any time, against a backend that answers with an
\* indexed invoice above the cursor.
SpecKilled == Init /\ [][NextKilled]_vars

\* C18: once the process has been killed holding invoice i, after i's
\* checkpoint write succeeded and before any relay was sent i's receipt:
\* a start that finds i in the checkpoint file issues its first request
\* with cursor i, and the backend never returns i to the process again, so
\* that no receipt for i is built or sent to a relay.
C18_SkippedForGood ==
    [][ /\ ( /\ pc \in {"down", "panicked"}
             /\ pc' = "await"
             /\ IsSome(skipped)
             /\ FileHolds(file, skipped) ) => request' = skipped
        /\ (IsSome(skipped') /\ IsSome(invoice')) =>
             Unwrap(invoice').pay_index # skipped' ]_vars

\* C19: within one run, from the first request on, the cursor of the request
\* last issued is always present, and no step of the run (an invoice with
\* or without a pay index, a backend error, a retry, a dropped or a
\* broadcast invoice) leaves a request with a smaller cursor or with none.
C19_CursorMonotone ==
    [][ (pc \notin {"down", "panicked"} /\ pc' \notin {"down", "panicked"}) =>
          /\ IsSome(request)
          /\ IsSome(request')
          /\ Unwrap(request') >= Unwrap(request) ]_vars

\* ====================================================================
\* The program that is never killed, scheduled fairly
\* ====================================================================

\* The steps of the program against a backend that answers with an indexed
\* invoice above the cursor; the process is not killed from outside.
NextLive ==
    \/ Start
    \/ BackendError
    \/ Retry
    \/ IndexedInvoiceReturned
    \/ Decode
    \/ CreateZapNote
    \/ Connect
    \/ BroadcastRelay
    \/ BroadcastDone

\* The runtime runs main's task whenever it can step (the loop's own steps
\* are weakly fair); every connection attempt gets its answer; and the
\* backend, asked again and again, answers with an invoice when it has one
\* (strong fairness: an error and its retry disable the answer in between).
SpecLive ==
    /\ Init
    /\ [][NextLive]_vars
    /\ WF_vars(Retry)
    /\ WF_vars(Decode)
    /\ WF_vars(CreateZapNote)
    /\ WF_vars(Connect)
    /\ WF_vars(BroadcastRelay)
    /\ WF_vars(BroadcastDone)
    /\ SF_vars(IndexedInvoiceReturned)

\* Paid invoices that carry a valid zap request, an amount the request does
\* not contradict, and a bolt11.
ZapInvoices ==
    { inv \in Invoices :
        /\ IsSome(inv.pay_index)
        /\ inv.status = "PAID"
        /\ ValidZapRequest(inv.description)
        /\ \A i \in TagsOfKind(inv.description.tags, "amount") :
              inv.amount_msat = Some(inv.description.tags[i].a)
        /\ IsSome(inv.bolt11) }

\* The invoice with pay index i is in hand and it is one of ZapInvoices.
ZapInvoiceInHand(i) ==
    /\ IsSome(invoice)
    /\ Unwrap(invoice) \in ZapInvoices
    /\ Unwrap(invoice).pay_index = Some(i)

\* C20: in a process that is not killed, every paid invoice that the backend
\* returns with a valid zap request, a matching or absent amount and a
\* bolt11 eventually has its receipt built and every relay of the default
\* set and of the request's own set attempted.
C20_EveryZapPublished ==
    \A i \in 1..MaxIdx :
        (pc = "decode" /\ ZapInvoiceInHand(i))
        ~> ( /\ ZapInvoiceInHand(i)
             /\ IsSome(zap_note)
             /\ attempted = {nostr_relay} \cup RelaysOf(Unwrap(invoice).description.tags) )

====
